---- MODULE Spec2Model ----
(***************************************************************************)
(* Model of examples/baichuan/hf_baichuan_convert.py (the Baichuan         *)
(* HuggingFace -> binary weight converter script) and of the two-step      *)
(* engine run of tests/model/test_phi.py.                                  *)
(*                                                                         *)
(* Text is modelled as a sequence of fragments: the text is the            *)
(* concatenation of the fragments, "." is always a fragment of its own,    *)
(* and substring tests, replace and split work on fragment sequences.      *)
(*                                                                         *)
(* Of the script's arguments, --out-dir, --in-file, --tensor-parallelism   *)
(* and --storage-type only name paths and dtypes; they are fixed here.     *)
(* split_and_save_weight is taken as a call that returns; the pool is      *)
(* multiprocessing.Pool: chunks of the task list are fetched by the        *)
(* workers in order, and starmap returns when every chunk has reported.    *)
(***************************************************************************)
EXTENDS Integers, Sequences, FiniteSets, TLC

\* ------------------------------------------------------------------------
\* Bounds of the explored inputs
\* ------------------------------------------------------------------------
MaxLayers == 1

MaxProcesses == 2

MaxRank == 3

MaxDim == 2

None == "None"

\* ------------------------------------------------------------------------
\* Text helpers (str.join, str.split, `in`, str.replace)
\* ------------------------------------------------------------------------
RECURSIVE Join(_)
Join(comps) ==
    IF Len(comps) = 0 THEN <<>>
    ELSE IF Len(comps) = 1 THEN comps[1]
    ELSE comps[1] \o <<".">> \o Join(Tail(comps))

\* a text all of whose components are single fragments
RECURSIVE Dotted(_)
Dotted(words) ==
    IF Len(words) = 0 THEN <<>>
    ELSE IF Len(words) = 1 THEN <<words[1]>>
    ELSE <<words[1], ".">> \o Dotted(Tail(words))

RECURSIVE SplitFrom(_, _)
SplitFrom(s, cur) ==
    IF Len(s) = 0 THEN <<cur>>
    ELSE IF Head(s) = "." THEN <<cur>> \o SplitFrom(Tail(s), <<>>)
    ELSE SplitFrom(Tail(s), Append(cur, Head(s)))

Split(s) == SplitFrom(s, <<>>)

StartsWith(s, k) == Len(k) <= Len(s) /\ SubSeq(s, 1, Len(k)) = k

Contains(s, k) ==
    \E i \in 1..(Len(s) - Len(k) + 1) : SubSeq(s, i, i + Len(k) - 1) = k

RECURSIVE Replace(_, _, _)
Replace(s, old, new) ==
    IF Len(s) = 0 THEN <<>>
    ELSE IF StartsWith(s, old)
         THEN new \o Replace(SubSeq(s, Len(old) + 1, Len(s)), old, new)
    ELSE <<Head(s)>> \o Replace(Tail(s), old, new)

Digits == <<"0", "1", "2", "3", "4", "5", "6", "7", "8", "9">>

\* int(layer_id) for a one-digit text
IntOf(s) == CHOOSE n \in 0..9 : s = <<Digits[n + 1]>>

\* f"{layer_id}" for a one-digit integer
StrOf(n) == <<Digits[n + 1]>>

\* ------------------------------------------------------------------------
\* baichuan_to_bin_name
\* ------------------------------------------------------------------------
GlobalBinWeightsMap ==
    [ n \in { Dotted(<<"model", "embed_tokens", "weight">>),
              Dotted(<<"model", "norm", "weight">>),
              Dotted(<<"lm_head", "weight">>) } |->
        IF n = Dotted(<<"model", "embed_tokens", "weight">>)
            THEN Dotted(<<"vocab_embedding", "weight">>)
        ELSE IF n = Dotted(<<"model", "norm", "weight">>)
            THEN Dotted(<<"ln_f", "weight">>)
        ELSE Dotted(<<"lm_head", "weight">>) ]

PerLayerWeightsBroken ==
    (Dotted(<<"input_layernorm", "weight">>) :> Dotted(<<"input_layernorm", "weight">>))
 @@ (Dotted(<<"self_attn", "W_pack", "weight">>) :> Dotted(<<"attention", "query_key_value", "weight">>))
 @@ (Dotted(<<"self_attn", "o_proj", "weight">>) :> Dotted(<<"attention", "dense", "weight">>))
 @@ (Dotted(<<"mlp", "gate_proj", "weight">>) :> Dotted(<<"mlp", "fc", "weight">>))
 @@ (Dotted(<<"mlp", "down_proj", "weight">>) :> Dotted(<<"mlp", "proj", "weight">>))
 @@ (Dotted(<<"mlp", "up_proj", "weight">>) :> Dotted(<<"mlp", "fc", "weight">>))
 @@ (Dotted(<<"post_attention_layernorm", "weight">>) :> Dotted(<<"post_layernorm", "weight">>))

PerLayerWeights ==
    (Dotted(<<"input_layernorm", "weight">>) :> Dotted(<<"input_layernorm", "weight">>))
 @@ (Dotted(<<"self_attn", "W_pack", "weight">>) :> Dotted(<<"attention", "query_key_value", "weight">>))
 @@ (Dotted(<<"self_attn", "o_proj", "weight">>) :> Dotted(<<"attention", "dense", "weight">>))
 @@ (Dotted(<<"mlp", "gate_proj", "weight">>) :> Dotted(<<"mlp", "fc", "weight">>))
 @@ (Dotted(<<"mlp", "down_proj", "weight">>) :> Dotted(<<"mlp", "proj", "weight">>))
 @@ (Dotted(<<"mlp", "up_proj", "weight">>) :> Dotted(<<"mlp", "gate", "weight">>))
 @@ (Dotted(<<"post_attention_layernorm", "weight">>) :> Dotted(<<"post_layernorm", "weight">>))

baichuan_to_bin_name(orig_name) ==
    IF orig_name \in DOMAIN GlobalBinWeightsMap
    THEN GlobalBinWeightsMap[orig_name]
    ELSE LET parts == Split(orig_name)
             layer_id == IntOf(parts[3])
             weight_name == Join(SubSeq(parts, 4, Len(parts)))
         IN  Dotted(<<"layers">>) \o <<".">> \o StrOf(layer_id) \o <<".">>
                 \o PerLayerWeights[weight_name]

\* ------------------------------------------------------------------------
\* Tensors: a view (shape, stride) on a storage; element (i0, i1, ...) of
\* the view is at offset i0*stride[1] + i1*stride[2] + ...
\* ------------------------------------------------------------------------
RECURSIVE ContiguousStride(_)
ContiguousStride(shape) ==
    IF Len(shape) = 0 THEN <<>>
    ELSE LET rest == ContiguousStride(Tail(shape))
         IN  IF Len(rest) = 0 THEN <<1>>
             ELSE <<rest[1] * shape[2]>> \o rest

Tensor(shape) == [shape |-> shape, stride |-> ContiguousStride(shape)]

\* torch.Tensor.transpose(0, 1): a view with dimensions 0 and 1 swapped
Transpose01(param) ==
    [shape  |-> [i \in DOMAIN param.shape |->
                    IF i = 1 THEN param.shape[2]
                    ELSE IF i = 2 THEN param.shape[1] ELSE param.shape[i]],
     stride |-> [i \in DOMAIN param.stride |->
                    IF i = 1 THEN param.stride[2]
                    ELSE IF i = 2 THEN param.stride[1] ELSE param.stride[i]]]

weight_to_transpose ==
    << <<"W_pack">>, <<"o_proj">>, <<"gate_proj">>, <<"down_proj">>, <<"up_proj">> >>

transpose_weights_any_rank(hf_name, param) ==
    IF \E i \in DOMAIN weight_to_transpose : Contains(hf_name, weight_to_transpose[i])
    THEN IF Len(param.shape) >= 2 THEN Transpose01(param) ELSE param
    ELSE param

transpose_weights(hf_name, param) ==
    IF \E i \in DOMAIN weight_to_transpose : Contains(hf_name, weight_to_transpose[i])
    THEN IF Len(param.shape) = 2 THEN Transpose01(param) ELSE param
    ELSE param

\* ------------------------------------------------------------------------
\* The script's inputs
\* ------------------------------------------------------------------------
HiddenSize == 2

\* --smoothquant: absent (default None) or a float, counted in halves
NoAlpha == [some |-> FALSE, val |-> 0]

SomeAlpha(v) == [some |-> TRUE, val |-> v]

\* 0.0, 0.5, 1.0 (the documented range) and 1.5 (argparse accepts any float)
AlphaHalves == 0..3

InUnitInterval(o) == o.some /\ o.val \in 0..2

\* Python truth value of an Optional[float]
Truthy(o) == o.some /\ o.val # 0

Platforms == {"Linux", "Windows", "Darwin"}

LayerModule(i) == Dotted(<<"model", "layers", Digits[i + 1]>>)

PerLayerParamNames ==
    << Dotted(<<"self_attn", "W_pack", "weight">>),
       Dotted(<<"self_attn", "o_proj", "weight">>),
       Dotted(<<"mlp", "gate_proj", "weight">>),
       Dotted(<<"mlp", "down_proj", "weight">>),
       Dotted(<<"mlp", "up_proj", "weight">>),
       Dotted(<<"input_layernorm", "weight">>),
       Dotted(<<"post_attention_layernorm", "weight">>) >>

ParamShape(w) ==
    IF w = Dotted(<<"self_attn", "W_pack", "weight">>) THEN <<3 * HiddenSize, HiddenSize>>
    ELSE IF w = Dotted(<<"self_attn", "o_proj", "weight">>) THEN <<HiddenSize, HiddenSize>>
    ELSE IF w = Dotted(<<"mlp", "gate_proj", "weight">>) THEN <<HiddenSize + 1, HiddenSize>>
    ELSE IF w = Dotted(<<"mlp", "up_proj", "weight">>) THEN <<HiddenSize + 1, HiddenSize>>
    ELSE IF w = Dotted(<<"mlp", "down_proj", "weight">>) THEN <<HiddenSize, HiddenSize + 1>>
    ELSE IF w = Dotted(<<"model", "embed_tokens", "weight">>) THEN <<HiddenSize + 2, HiddenSize>>
    ELSE IF w = Dotted(<<"lm_head", "weight">>) THEN <<HiddenSize + 2, HiddenSize>>
    ELSE <<HiddenSize>>

RECURSIVE LayerParams(_, _)
LayerParams(i, n) ==
    IF i >= n THEN <<>>
    ELSE [k \in 1..Len(PerLayerParamNames) |->
            [name  |-> LayerModule(i) \o <<".">> \o PerLayerParamNames[k],
             param |-> Tensor(ParamShape(PerLayerParamNames[k]))]]
         \o LayerParams(i + 1, n)

\* model.named_parameters() of a Baichuan checkpoint with n decoder layers
NamedParameters(n) ==
    << [name  |-> Dotted(<<"model", "embed_tokens", "weight">>),
        param |-> Tensor(ParamShape(Dotted(<<"model", "embed_tokens", "weight">>)))] >>
    \o LayerParams(0, n)
    \o << [name  |-> Dotted(<<"model", "norm", "weight">>),
           param |-> Tensor(ParamShape(Dotted(<<"model", "norm", "weight">>)))],
          [name  |-> Dotted(<<"lm_head", "weight">>),
           param |-> Tensor(ParamShape(Dotted(<<"lm_head", "weight">>)))] >>

\* names of the modules whose class name contains 'Layer'
LayerModules(n) == { LayerModule(i) : i \in 0..(n - 1) }

LinearSuffixes ==
    { Dotted(<<"self_attn", "W_pack">>), Dotted(<<"self_attn", "o_proj">>),
      Dotted(<<"mlp", "gate_proj">>), Dotted(<<"mlp", "up_proj">>),
      Dotted(<<"mlp", "down_proj">>) }

\* keys of the dict returned by capture_activation_range
LinearKeys(n) == { m \o <<".">> \o s : m \in LayerModules(n), s \in LinearSuffixes }

NoRange == [x |-> "None", w |-> FALSE]

\* act_range.get(key)
ActRangeGet(ar, key) == IF key \in DOMAIN ar THEN ar[key] ELSE NoRange

global_bin_weights ==
    { Dotted(<<"vocab_embedding", "weight">>), Dotted(<<"ln_f", "weight">>),
      Dotted(<<"lm_head", "weight">>) }

\* bin_name.split('.')[-2]
SecondLast(bin_name) == LET p == Split(bin_name) IN p[Len(p) - 1]

\* chunks of the task indices 1..n, as Pool._get_tasks slices them
RECURSIVE Chunks(_, _, _)
Chunks(from, n, size) ==
    IF from > n \/ size = 0 THEN <<>>
    ELSE LET to == IF from + size - 1 > n THEN n ELSE from + size - 1
         IN  <<[k \in 1..(to - from + 1) |-> from + k - 1]>> \o Chunks(to + 1, n, size)

\* chunksize of Pool.starmap when none is given
ChunkSize(n, workers) ==
    IF n = 0 THEN 0
    ELSE (n \div (workers * 4)) + (IF n % (workers * 4) # 0 THEN 1 ELSE 0)

\* ------------------------------------------------------------------------
\* State
\* ------------------------------------------------------------------------
VARIABLES
    pc,                 \* position of the main process in the script
    platform_system,    \* platform.system()
    checkpoint_layers,  \* decoder layers of the checkpoint at args.in_file
    args,               \* parsed arguments
    requested,          \* args.processes as parsed from the command line
    converter_calls,    \* number of calls of hf_baichuan_converter
    files,              \* files and directories created by the main process
    named_parameters,   \* model.named_parameters() of the loaded model
    smoothed_modules,   \* layer modules whose weights smooth_gemm rewrote
    act_range,          \* dict of activation ranges
    capture_calls,      \* number of calls of capture_activation_range
    smooth_calls,       \* alphas smooth_baichuan_model was called with
    baichuan_smoother,  \* dict of smoothers
    int8_outputs,       \* the int8_outputs local
    param_idx,          \* next parameter of the conversion loop
    starmap_args,       \* list of tasks
    pool_created,       \* multiprocessing.Pool was constructed
    task_queue,         \* chunks not yet fetched by a worker
    chunks_left,        \* chunks whose result has not arrived
    worker,             \* per worker: chunk in progress, inside a call or not
    seq_idx,            \* next task of the sequential loop
    calls,              \* per task: how often split_and_save_weight was entered
    finished            \* per task: how often split_and_save_weight returned

convert_vars ==
    <<pc, platform_system, checkpoint_layers, args, requested, converter_calls,
      files, named_parameters, smoothed_modules, act_range, capture_calls,
      smooth_calls, baichuan_smoother, int8_outputs, param_idx, starmap_args,
      pool_created, task_queue, chunks_left, worker, seq_idx, calls, finished>>

\* tests/model/test_phi.py, TestPhi.test_phi_plugin
VARIABLES
    t_pc,                         \* position in the test
    sm_version,                   \* getSMVersion()
    context_fmha_flag,            \* test parameter
    enable_remove_input_padding,  \* test parameter
    step,                         \* the local `step`
    key_value_cache_buffers,      \* one buffer (its identity) per layer
    sequence_length_buffer,       \* value of the tensor the name is bound to
    ctx_buffer,                   \* inputs of the context run
    step1_buffer,                 \* inputs of the generation run
    runs                          \* engine runs so far, in order

phi_vars ==
    <<t_pc, sm_version, context_fmha_flag, enable_remove_input_padding, step,
      key_value_cache_buffers, sequence_length_buffer, ctx_buffer, step1_buffer,
      runs>>

\* repeated application of transpose_weights to one parameter
VARIABLES
    tr_name,     \* hf_name
    tr_orig,     \* the parameter as loaded
    tr_param,    \* the parameter after tr_count applications
    tr_count     \* number of applications so far

tr_vars == <<tr_name, tr_orig, tr_param, tr_count>>

vars == <<convert_vars, phi_vars, tr_vars>>

EmptyDict == [k \in {} |-> NoRange]

NoArgs == [processes |-> 0, calibrate_kv_cache |-> FALSE, smoothquant |-> NoAlpha]

ConvertIdle(start) ==
    /\ pc = start
    /\ args = NoArgs
    /\ requested = 0
    /\ converter_calls = 0
    /\ files = {}
    /\ named_parameters = <<>>
    /\ smoothed_modules = {}
    /\ act_range = EmptyDict
    /\ capture_calls = 0
    /\ smooth_calls = <<>>
    /\ baichuan_smoother = EmptyDict
    /\ int8_outputs = None
    /\ param_idx = 1
    /\ starmap_args = <<>>
    /\ pool_created = FALSE
    /\ task_queue = <<>>
    /\ chunks_left = 0
    /\ worker = <<>>
    /\ seq_idx = 1
    /\ calls = <<>>
    /\ finished = <<>>

\* ------------------------------------------------------------------------
\* __main__
\* ------------------------------------------------------------------------
\* parser.parse_args()
ParseArgs ==
    /\ UNCHANGED <<phi_vars, tr_vars>>
    /\ pc = "parse_args"
    /\ \E p \in 0..MaxProcesses, kv \in BOOLEAN,
          sq \in {NoAlpha} \cup { SomeAlpha(v) : v \in AlphaHalves } :
          /\ args' = [processes |-> p, calibrate_kv_cache |-> kv, smoothquant |-> sq]
          /\ requested' = p
    /\ pc' = "platform_check"
    /\ UNCHANGED <<platform_system, checkpoint_layers, converter_calls, files,
                   named_parameters, smoothed_modules, act_range, capture_calls,
                   smooth_calls, baichuan_smoother, int8_outputs, param_idx,
                   starmap_args, pool_created, task_queue, chunks_left, worker,
                   seq_idx, calls, finished>>

ResetProcessesAlways(a, system) ==
    IF a.processes > 1 THEN [a EXCEPT !.processes = 1] ELSE a

\* if args.processes > 1 and platform.system() == "Windows": args.processes = 1
ResetProcesses(a, system) ==
    IF a.processes > 1 /\ system = "Windows" THEN [a EXCEPT !.processes = 1] ELSE a

PlatformCheck ==
    /\ UNCHANGED <<phi_vars, tr_vars>>
    /\ pc = "platform_check"
    /\ args' = ResetProcesses(args, platform_system)
    /\ pc' = "assert_enabled"
    /\ UNCHANGED <<platform_system, checkpoint_layers, requested, converter_calls,
                   files, named_parameters, smoothed_modules, act_range,
                   capture_calls, smooth_calls, baichuan_smoother, int8_outputs,
                   param_idx, starmap_args, pool_created, task_queue, chunks_left,
                   worker, seq_idx, calls, finished>>

AssertionSkipped(a) == TRUE

\* assert (args.calibrate_kv_cache or args.smoothquant)
AssertionHolds(a) == a.calibrate_kv_cache \/ Truthy(a.smoothquant)

AssertEnabled ==
    /\ UNCHANGED <<phi_vars, tr_vars>>
    /\ pc = "assert_enabled"
    /\ IF AssertionHolds(args)
       THEN /\ pc' = "converter_load"
            /\ converter_calls' = converter_calls + 1
       ELSE /\ pc' = "AssertionError"
            /\ UNCHANGED converter_calls
    /\ UNCHANGED <<platform_system, checkpoint_layers, args, requested, files,
                   named_parameters, smoothed_modules, act_range, capture_calls,
                   smooth_calls, baichuan_smoother, int8_outputs, param_idx,
                   starmap_args, pool_created, task_queue, chunks_left, worker,
                   seq_idx, calls, finished>>

\* ------------------------------------------------------------------------
\* hf_baichuan_converter
\* ------------------------------------------------------------------------
SavedDir == <<"out_dir", "/", "tp-gpu">>

\* saved_dir.mkdir(...); AutoModelForCausalLM.from_pretrained(args.in_file, ...)
ConverterLoad ==
    /\ UNCHANGED <<phi_vars, tr_vars>>
    /\ pc = "converter_load"
    /\ files' = files \cup {SavedDir}
    /\ named_parameters' = NamedParameters(checkpoint_layers)
    /\ pc' = "calibrate"
    /\ UNCHANGED <<platform_system, checkpoint_layers, args, requested,
                   converter_calls, smoothed_modules, act_range, capture_calls,
                   smooth_calls, baichuan_smoother, int8_outputs, param_idx,
                   starmap_args, pool_created, task_queue, chunks_left, worker,
                   seq_idx, calls, finished>>

\* capture_activation_range(model, tokenizer)
CapturedRanges(n) == [k \in LinearKeys(n) |-> [x |-> "captured", w |-> FALSE]]

\* scales after smooth_baichuan_model: every "x" divided by its smoother,
\* every "w" set from the smoothed weight
SmoothedScales(scales, modules) ==
    [k \in DOMAIN scales |->
        IF \E m \in modules, s \in LinearSuffixes : k = m \o <<".">> \o s
        THEN [x |-> "smoothed", w |-> TRUE]
        ELSE scales[k]]

\* baichuan_smoother after smooth_baichuan_model
Smoothers(modules, alpha) ==
    [k \in { m \o <<".">> \o s : m \in modules,
                 s \in { Dotted(<<"self_attn", "o_proj">>), Dotted(<<"mlp", "down_proj">>) } }
        |-> [x |-> "smoother", w |-> FALSE]]

SmoothRequestedOrCalibrating(a) == a.smoothquant.some \/ a.calibrate_kv_cache

\* if args.smoothquant is not None
SmoothRequested(a) == a.smoothquant.some

Calibrate ==
    /\ UNCHANGED <<phi_vars, tr_vars>>
    /\ pc = "calibrate"
    /\ IF args.smoothquant.some \/ args.calibrate_kv_cache
       THEN /\ capture_calls' = capture_calls + 1
            /\ IF SmoothRequested(args)
               THEN /\ smooth_calls' = Append(smooth_calls, args.smoothquant.val)
                    /\ smoothed_modules' = LayerModules(checkpoint_layers)
                    /\ act_range' = SmoothedScales(CapturedRanges(checkpoint_layers),
                                                   LayerModules(checkpoint_layers))
                    /\ baichuan_smoother' = Smoothers(LayerModules(checkpoint_layers),
                                                      args.smoothquant.val)
               ELSE /\ act_range' = CapturedRanges(checkpoint_layers)
                    /\ UNCHANGED <<smooth_calls, smoothed_modules, baichuan_smoother>>
       ELSE UNCHANGED <<capture_calls, smooth_calls, smoothed_modules, act_range,
                        baichuan_smoother>>
    /\ pc' = "write_config"
    /\ UNCHANGED <<platform_system, checkpoint_layers, args, requested,
                   converter_calls, files, named_parameters, int8_outputs,
                   param_idx, starmap_args, pool_created, task_queue, chunks_left,
                   worker, seq_idx, calls, finished>>

\* int8_outputs = None; if calibrate_kv_cache: "kv_cache_only";
\* if smoothquant is not None: "all"
Int8Outputs(a) ==
    IF a.smoothquant.some THEN "all"
    ELSE IF a.calibrate_kv_cache THEN "kv_cache_only"
    ELSE None

\* config.write(configfile); int8_outputs
WriteConfig ==
    /\ UNCHANGED <<phi_vars, tr_vars>>
    /\ pc = "write_config"
    /\ files' = files \cup {SavedDir \o <<"/">> \o Dotted(<<"config", "ini">>)}
    /\ int8_outputs' = Int8Outputs(args)
    /\ pc' = "convert_params"
    /\ UNCHANGED <<platform_system, checkpoint_layers, args, requested,
                   converter_calls, named_parameters, smoothed_modules, act_range,
                   capture_calls, smooth_calls, baichuan_smoother, param_idx,
                   starmap_args, pool_created, task_queue, chunks_left, worker,
                   seq_idx, calls, finished>>

\* one tuple of starmap_args: (0, saved_dir, infer_tp, name, vals, act_range, config)
Task(name, vals, range, i8) ==
    [name |-> name, vals |-> vals, act_range |-> range, int8_outputs |-> i8]

\* the task appended for a parameter that has a smoother
SmootherTasks(name, bin_name, smoother, i8) ==
    IF Replace(name, <<".", "weight">>, <<>>) \in DOMAIN smoother
    THEN << Task(Replace(bin_name \o <<".", "smoother">>, <<".", "weight">>, <<>>),
                 [kind |-> "smoother", shape |-> <<>>, stride |-> <<>>],
                 NoRange, i8) >>
    ELSE <<>>

\* the task appended for the parameter itself, if any
WeightTasks(name, bin_name, param, ranges, i8) ==
    IF bin_name \in global_bin_weights THEN <<>>
    ELSE IF SecondLast(bin_name) = <<"query_key_value">>
    THEN << Task(bin_name,
                 [kind |-> "weight", shape |-> param.shape, stride |-> param.stride],
                 ActRangeGet(ranges, Replace(name, <<".", "weight">>, <<>>)), i8) >>
    ELSE IF SecondLast(bin_name) = <<"kv">> THEN <<>>
    ELSE << Task(bin_name,
                 [kind |-> "weight", shape |-> param.shape, stride |-> param.stride],
                 ActRangeGet(ranges, Replace(name, <<".", "weight">>, <<>>)), i8) >>

\* one iteration of `for name, param in model.named_parameters()`
ConvertParam ==
    /\ UNCHANGED <<phi_vars, tr_vars>>
    /\ pc = "convert_params"
    /\ param_idx <= Len(named_parameters)
    /\ LET name == named_parameters[param_idx].name
           param == named_parameters[param_idx].param
       IN  IF ~Contains(name, <<"weight">>) /\ ~Contains(name, <<"bias">>)
           THEN UNCHANGED <<starmap_args, files>>
           ELSE LET bin_name == baichuan_to_bin_name(name)
                    transposed == transpose_weights(name, param)
                IN  /\ starmap_args' = starmap_args
                            \o SmootherTasks(name, bin_name, baichuan_smoother, int8_outputs)
                            \o WeightTasks(name, bin_name, transposed, act_range, int8_outputs)
                    /\ files' = IF bin_name \in global_bin_weights
                                THEN files \cup {SavedDir \o <<"/">> \o bin_name \o <<".", "bin">>}
                                ELSE files
    /\ param_idx' = param_idx + 1
    /\ UNCHANGED <<pc, platform_system, checkpoint_layers, args, requested,
                   converter_calls, named_parameters, smoothed_modules, act_range,
                   capture_calls, smooth_calls, baichuan_smoother, int8_outputs,
                   pool_created, task_queue, chunks_left, worker, seq_idx, calls,
                   finished>>

\* if args.processes > 1
UsePool(a) == a.processes > 1

IdleWorker == [chunk |-> <<>>, in_call |-> FALSE]

\* end of the loop; Pool(args.processes) and the hand-over of the chunks, or
\* the start of the sequential loop
Dispatch ==
    /\ UNCHANGED <<phi_vars, tr_vars>>
    /\ pc = "convert_params"
    /\ param_idx > Len(named_parameters)
    /\ calls' = [i \in 1..Len(starmap_args) |-> 0]
    /\ finished' = [i \in 1..Len(starmap_args) |-> 0]
    /\ IF UsePool(args)
       THEN /\ pool_created' = TRUE
            /\ worker' = [w \in 1..args.processes |-> IdleWorker]
            /\ task_queue' = Chunks(1, Len(starmap_args),
                                    ChunkSize(Len(starmap_args), args.processes))
            /\ chunks_left' = Len(task_queue')
            /\ pc' = "starmap"
            /\ UNCHANGED seq_idx
       ELSE /\ seq_idx' = 1
            /\ pc' = "sequential"
            /\ UNCHANGED <<pool_created, worker, task_queue, chunks_left>>
    /\ UNCHANGED <<platform_system, checkpoint_layers, args, requested,
                   converter_calls, files, named_parameters, smoothed_modules,
                   act_range, capture_calls, smooth_calls, baichuan_smoother,
                   int8_outputs, param_idx, starmap_args>>

SequentialSkipFirst ==
    /\ UNCHANGED <<phi_vars, tr_vars>>
    /\ pc = "sequential"
    /\ seq_idx <= Len(starmap_args)
    /\ IF seq_idx = 1
       THEN UNCHANGED <<calls, finished>>
       ELSE /\ calls' = [calls EXCEPT ![seq_idx] = @ + 1]
            /\ finished' = [finished EXCEPT ![seq_idx] = @ + 1]
    /\ seq_idx' = seq_idx + 1
    /\ UNCHANGED <<pc, platform_system, checkpoint_layers, args, requested,
                   converter_calls, files, named_parameters, smoothed_modules,
                   act_range, capture_calls, smooth_calls, baichuan_smoother,
                   int8_outputs, param_idx, starmap_args, pool_created,
                   task_queue, chunks_left, worker>>

\* for starmap_arg in starmap_args: split_and_save_weight(*starmap_arg)
SequentialCall ==
    /\ UNCHANGED <<phi_vars, tr_vars>>
    /\ pc = "sequential"
    /\ seq_idx <= Len(starmap_args)
    /\ calls' = [calls EXCEPT ![seq_idx] = @ + 1]
    /\ finished' = [finished EXCEPT ![seq_idx] = @ + 1]
    /\ seq_idx' = seq_idx + 1
    /\ UNCHANGED <<pc, platform_system, checkpoint_layers, args, requested,
                   converter_calls, files, named_parameters, smoothed_modules,
                   act_range, capture_calls, smooth_calls, baichuan_smoother,
                   int8_outputs, param_idx, starmap_args, pool_created,
                   task_queue, chunks_left, worker>>

PoolUnchanged ==
    UNCHANGED <<phi_vars, tr_vars, pc, platform_system, checkpoint_layers, args, requested,
                converter_calls, files, named_parameters, smoothed_modules,
                act_range, capture_calls, smooth_calls, baichuan_smoother,
                int8_outputs, param_idx, starmap_args, pool_created, seq_idx>>

\* a pool worker fetches the next chunk of starmap_args
WorkerGet(w) ==
    /\ pc = "starmap"
    /\ worker[w].chunk = <<>>
    /\ task_queue # <<>>
    /\ worker' = [worker EXCEPT ![w].chunk = Head(task_queue)]
    /\ task_queue' = Tail(task_queue)
    /\ UNCHANGED <<chunks_left, calls, finished>>
    /\ PoolUnchanged

\* the worker enters split_and_save_weight(*task) for the next task of its chunk
WorkerCall(w) ==
    /\ pc = "starmap"
    /\ worker[w].chunk # <<>>
    /\ ~worker[w].in_call
    /\ calls' = [calls EXCEPT ![Head(worker[w].chunk)] = @ + 1]
    /\ worker' = [worker EXCEPT ![w].in_call = TRUE]
    /\ UNCHANGED <<task_queue, chunks_left, finished>>
    /\ PoolUnchanged

\* split_and_save_weight returns; after the last task of the chunk the
\* chunk's result is handed back
WorkerReturn(w) ==
    /\ pc = "starmap"
    /\ worker[w].in_call
    /\ finished' = [finished EXCEPT ![Head(worker[w].chunk)] = @ + 1]
    /\ worker' = [worker EXCEPT ![w] = [chunk |-> Tail(@.chunk), in_call |-> FALSE]]
    /\ chunks_left' = IF Len(worker[w].chunk) = 1 THEN chunks_left - 1 ELSE chunks_left
    /\ UNCHANGED <<task_queue, calls>>
    /\ PoolUnchanged

\* pool.starmap returns once every chunk's result is in (the pool is then
\* terminated); the sequential loop ends after the last task
ConverterReturn ==
    /\ UNCHANGED <<phi_vars, tr_vars>>
    /\ \/ pc = "starmap" /\ chunks_left = 0
       \/ pc = "sequential" /\ seq_idx > Len(starmap_args)
    /\ pc' = "done"
    /\ UNCHANGED <<platform_system, checkpoint_layers, args, requested,
                   converter_calls, files, named_parameters, smoothed_modules,
                   act_range, capture_calls, smooth_calls, baichuan_smoother,
                   int8_outputs, param_idx, starmap_args, pool_created,
                   task_queue, chunks_left, worker, seq_idx, calls, finished>>

\* ------------------------------------------------------------------------
\* tests/model/test_phi.py: TestPhi.test_phi_plugin
\* ------------------------------------------------------------------------
n_layer == 6

max_length == 128

batch_size == 1

seq_len == 128

total_seq_len == max_length + seq_len

ContextFMHATypes == {"disabled", "enabled", "enabled_with_fp32_acc"}

SMVersions == {75, 80, 90}

\* seq_len * torch.ones((batch_size), dtype=torch.int32)
ctx_context_lengths == [b \in 1..batch_size |-> seq_len]

RECURSIVE CumSum(_)
CumSum(t) ==
    IF Len(t) = 0 THEN <<>>
    ELSE LET front == CumSum(SubSeq(t, 1, Len(t) - 1))
         IN  Append(front, (IF Len(front) = 0 THEN 0 ELSE front[Len(front)]) + t[Len(t)])

TorchAddDropped(t, k) == t

\* torch.add(t, k): a new tensor, t is left as it is
TorchAdd(t, k) == [b \in DOMAIN t |-> t[b] + k]

NoBuffer ==
    [input_ids_shape |-> <<>>, context_lengths |-> <<>>, host_request_types |-> <<>>,
     last_token_ids |-> <<>>, cache_indirection |-> 0,
     host_context_lengths |-> <<>>, past_key_value |-> <<>>,
     present_key_value |-> <<>>, host_max_attention_window_size |-> <<>>,
     sequence_length |-> <<>>, host_past_key_value_lengths |-> <<>>,
     host_sink_token_length |-> <<>>]

PhiIdle ==
    /\ t_pc = "idle"
    /\ sm_version = 0
    /\ context_fmha_flag = "disabled"
    /\ enable_remove_input_padding = FALSE
    /\ step = 0
    /\ key_value_cache_buffers = <<>>
    /\ sequence_length_buffer = <<>>
    /\ ctx_buffer = NoBuffer
    /\ step1_buffer = NoBuffer
    /\ runs = <<>>

\* pytest.skip on pre-ampere architectures
SkipCheck ==
    /\ t_pc = "start"
    /\ t_pc' = IF sm_version < 80 /\ context_fmha_flag \in {"enabled", "enabled_with_fp32_acc"}
               THEN "skipped" ELSE "build"
    /\ UNCHANGED <<sm_version, context_fmha_flag, enable_remove_input_padding, step,
                   key_value_cache_buffers, sequence_length_buffer, ctx_buffer,
                   step1_buffer, runs>>
    /\ UNCHANGED <<convert_vars, tr_vars>>

\* the HF model, the engine and one zeroed KV-cache buffer per layer
BuildRuntime ==
    /\ t_pc = "build"
    /\ key_value_cache_buffers' = [i \in 1..n_layer |-> i]
    /\ t_pc' = "context_reference"
    /\ UNCHANGED <<sm_version, context_fmha_flag, enable_remove_input_padding, step,
                   sequence_length_buffer, ctx_buffer, step1_buffer, runs>>
    /\ UNCHANGED <<convert_vars, tr_vars>>

\* step = 0, the HF reference forward, sequence_length_buffer
ContextReference ==
    /\ t_pc = "context_reference"
    /\ step' = 0
    /\ sequence_length_buffer' = ctx_context_lengths
    /\ t_pc' = "context_buffers"
    /\ UNCHANGED <<sm_version, context_fmha_flag, enable_remove_input_padding,
                   key_value_cache_buffers, ctx_buffer, step1_buffer, runs>>
    /\ UNCHANGED <<convert_vars, tr_vars>>

\* ctx_buffer and the re-binding of sequence_length_buffer
ContextBuffers ==
    /\ t_pc = "context_buffers"
    /\ ctx_buffer' =
        [input_ids_shape |-> IF enable_remove_input_padding
                             THEN <<batch_size * seq_len>> ELSE <<batch_size, seq_len>>,
         context_lengths |-> ctx_context_lengths,
         host_request_types |-> [b \in 1..batch_size |-> 0],
         last_token_ids |-> IF enable_remove_input_padding
                            THEN CumSum(ctx_context_lengths) ELSE ctx_context_lengths,
         cache_indirection |-> 0,
         host_context_lengths |-> IF enable_remove_input_padding
                                  THEN ctx_context_lengths ELSE <<>>,
         past_key_value |-> key_value_cache_buffers,
         present_key_value |-> key_value_cache_buffers,
         host_max_attention_window_size |-> [i \in 1..n_layer |-> total_seq_len],
         sequence_length |-> sequence_length_buffer,
         host_past_key_value_lengths |-> ctx_context_lengths,
         host_sink_token_length |-> <<0>>]
    /\ sequence_length_buffer' = TorchAdd(sequence_length_buffer, step)
    /\ t_pc' = "run_context"
    /\ UNCHANGED <<sm_version, context_fmha_flag, enable_remove_input_padding, step,
                   key_value_cache_buffers, step1_buffer, runs>>
    /\ UNCHANGED <<convert_vars, tr_vars>>

\* runtime._run(runtime.ctx_context)
RunContext ==
    /\ t_pc = "run_context"
    /\ runs' = Append(runs, [context |-> "ctx_context", step |-> step, buffer |-> ctx_buffer])
    /\ t_pc' = "compare_context"
    /\ UNCHANGED <<sm_version, context_fmha_flag, enable_remove_input_padding, step,
                   key_value_cache_buffers, sequence_length_buffer, ctx_buffer,
                   step1_buffer>>
    /\ UNCHANGED <<convert_vars, tr_vars>>

\* np.testing.assert_allclose(ref, res, atol=1e-1): the logits are the
\* engine's, so either outcome is possible
CompareContext ==
    /\ t_pc = "compare_context"
    /\ \E close \in BOOLEAN : t_pc' = IF close THEN "generation_reference" ELSE "failed"
    /\ UNCHANGED <<sm_version, context_fmha_flag, enable_remove_input_padding, step,
                   key_value_cache_buffers, sequence_length_buffer, ctx_buffer,
                   step1_buffer, runs>>
    /\ UNCHANGED <<convert_vars, tr_vars>>

\* step = 1, the HF reference forward with one more token
GenerationReference ==
    /\ t_pc = "generation_reference"
    /\ step' = 1
    /\ t_pc' = "generation_buffers"
    /\ UNCHANGED <<sm_version, context_fmha_flag, enable_remove_input_padding,
                   key_value_cache_buffers, sequence_length_buffer, ctx_buffer,
                   step1_buffer, runs>>
    /\ UNCHANGED <<convert_vars, tr_vars>>

\* step1_buffer
GenerationBuffers ==
    /\ t_pc = "generation_buffers"
    /\ sequence_length_buffer' = TorchAdd(sequence_length_buffer, step)
    /\ step1_buffer' =
        [input_ids_shape |-> IF enable_remove_input_padding
                             THEN <<batch_size>> ELSE <<batch_size, 1>>,
         context_lengths |-> ctx_context_lengths,
         host_request_types |-> [b \in 1..batch_size |-> 1],
         last_token_ids |-> IF enable_remove_input_padding
                            THEN CumSum([b \in 1..batch_size |-> 1])
                            ELSE [b \in 1..batch_size |-> 0],
         cache_indirection |-> 1,
         host_context_lengths |-> IF enable_remove_input_padding
                                  THEN ctx_context_lengths ELSE <<>>,
         past_key_value |-> key_value_cache_buffers,
         present_key_value |-> key_value_cache_buffers,
         host_max_attention_window_size |-> [i \in 1..n_layer |-> total_seq_len],
         sequence_length |-> sequence_length_buffer',
         host_past_key_value_lengths |-> [b \in 1..batch_size |-> seq_len + step - 1],
         host_sink_token_length |-> <<0>>]
    /\ t_pc' = "run_generation"
    /\ UNCHANGED <<sm_version, context_fmha_flag, enable_remove_input_padding, step,
                   key_value_cache_buffers, ctx_buffer, runs>>
    /\ UNCHANGED <<convert_vars, tr_vars>>

\* runtime._run(runtime.context_1)
RunGeneration ==
    /\ t_pc = "run_generation"
    /\ runs' = Append(runs, [context |-> "context_1", step |-> step, buffer |-> step1_buffer])
    /\ t_pc' = "compare_generation"
    /\ UNCHANGED <<sm_version, context_fmha_flag, enable_remove_input_padding, step,
                   key_value_cache_buffers, sequence_length_buffer, ctx_buffer,
                   step1_buffer>>
    /\ UNCHANGED <<convert_vars, tr_vars>>

CompareGeneration ==
    /\ t_pc = "compare_generation"
    /\ \E close \in BOOLEAN : t_pc' = IF close THEN "passed" ELSE "failed"
    /\ UNCHANGED <<sm_version, context_fmha_flag, enable_remove_input_padding, step,
                   key_value_cache_buffers, sequence_length_buffer, ctx_buffer,
                   step1_buffer, runs>>
    /\ UNCHANGED <<convert_vars, tr_vars>>

\* ------------------------------------------------------------------------
\* transpose_weights applied to arbitrary parameters
\* ------------------------------------------------------------------------
MaxApplications == 2

TransposeNames ==
    { LayerModule(0) \o <<".">> \o PerLayerParamNames[k] : k \in DOMAIN PerLayerParamNames }
    \cup DOMAIN GlobalBinWeightsMap
    \cup { Dotted(<<"model", "layers", "0", "self_attn", "W_pack", "bias">>),
           Dotted(<<"model", "layers", "0", "mlp">>) \o <<".", "gate_", "up_proj", ".", "weight">>,
           Dotted(<<"model", "layers", "0", "self_attn", "rotary_emb", "inv_freq">>) }

Tensors == { Tensor(sh) : sh \in UNION { [1..r -> 1..MaxDim] : r \in 0..MaxRank } }

TrIdle ==
    /\ tr_name = <<>>
    /\ tr_orig = Tensor(<<>>)
    /\ tr_param = Tensor(<<>>)
    /\ tr_count = 0

\* param = transpose_weights(name, param)
ApplyTranspose ==
    /\ tr_name # <<>>
    /\ tr_count < MaxApplications
    /\ tr_param' = transpose_weights(tr_name, tr_param)
    /\ tr_count' = tr_count + 1
    /\ UNCHANGED <<tr_name, tr_orig>>
    /\ UNCHANGED <<convert_vars, phi_vars>>

ConvertOff ==
    /\ platform_system = "Linux"
    /\ checkpoint_layers = 1
    /\ ConvertIdle("idle")

InitPhi ==
    /\ ConvertOff
    /\ TrIdle
    /\ t_pc = "start"
    /\ sm_version \in SMVersions
    /\ context_fmha_flag \in ContextFMHATypes
    /\ enable_remove_input_padding \in BOOLEAN
    /\ step = 0
    /\ key_value_cache_buffers = <<>>
    /\ sequence_length_buffer = <<>>
    /\ ctx_buffer = NoBuffer
    /\ step1_buffer = NoBuffer
    /\ runs = <<>>

NextPhi ==
    \/ SkipCheck
    \/ BuildRuntime
    \/ ContextReference
    \/ ContextBuffers
    \/ RunContext
    \/ CompareContext
    \/ GenerationReference
    \/ GenerationBuffers
    \/ RunGeneration
    \/ CompareGeneration

SpecPhi == InitPhi /\ [][NextPhi]_vars

InitTranspose ==
    /\ ConvertOff
    /\ PhiIdle
    /\ tr_name \in TransposeNames
    /\ tr_orig \in Tensors
    /\ tr_param = tr_orig
    /\ tr_count = 0

NextTranspose == ApplyTranspose

SpecTranspose == InitTranspose /\ [][NextTranspose]_vars

Init ==
    /\ platform_system \in Platforms
    /\ checkpoint_layers \in 1..MaxLayers
    /\ ConvertIdle("parse_args")
    /\ PhiIdle
    /\ TrIdle

Next ==
    \/ ParseArgs
    \/ PlatformCheck
    \/ AssertEnabled
    \/ ConverterLoad
    \/ Calibrate
    \/ WriteConfig
    \/ ConvertParam
    \/ Dispatch
    \/ SequentialCall
    \/ \E w \in DOMAIN worker : WorkerGet(w)
    \/ \E w \in DOMAIN worker : WorkerCall(w)
    \/ \E w \in DOMAIN worker : WorkerReturn(w)
    \/ ConverterReturn

Spec == Init /\ [][Next]_vars

\* ------------------------------------------------------------------------
\* Properties
\* ------------------------------------------------------------------------
BeforeAssert == pc \in {"parse_args", "platform_check", "assert_enabled"}

AfterCalibrate ==
    pc \in {"write_config", "convert_params", "starmap", "sequential", "done"}

TaskIndices == 1..Len(starmap_args)

\* C1: every task of starmap_args is passed to split_and_save_weight exactly
\* once, by the pool (processes > 1, whatever the interleaving of the workers)
\* or by the sequential loop in list order (processes <= 1), and the converter
\* returns only after every call has finished; so both modes make the same
\* multiset of calls, one per task.
C1_EveryTaskExactlyOnce ==
    /\ \A i \in DOMAIN calls : calls[i] <= 1 /\ finished[i] <= calls[i]
    /\ pc = "sequential" =>
          /\ args.processes <= 1
          /\ \A i \in TaskIndices : calls[i] = (IF i < seq_idx THEN 1 ELSE 0)
    /\ pc = "starmap" => args.processes > 1
    /\ pc = "done" =>
          /\ DOMAIN calls = TaskIndices
          /\ \A i \in TaskIndices : calls[i] = 1 /\ finished[i] = 1
          /\ pool_created <=> (args.processes > 1)

C1_Witness ==
    /\ pc = "done"
    /\ pool_created
    /\ Len(starmap_args) > Len(worker)
    /\ \A i \in TaskIndices : finished[i] = 1

C3_NoConversionUnlessEnabled ==
    /\ (converter_calls > 0 \/ files # {} \/ Len(starmap_args) > 0) =>
          (args.calibrate_kv_cache \/ args.smoothquant.some)
    /\ (~BeforeAssert /\ ~args.calibrate_kv_cache /\ ~args.smoothquant.some) =>
          /\ pc = "AssertionError"
          /\ converter_calls = 0
          /\ files = {}
          /\ capture_calls = 0

C3_Witness ==
    /\ pc = "AssertionError"
    /\ ~args.calibrate_kv_cache
    /\ ~args.smoothquant.some

\* C4: for every alpha in [0, 1] given as --smoothquant, with or without
\* --calibrate-kv-cache, the script reaches hf_baichuan_converter, smooths
\* the model with that alpha and marks every task with int8_outputs = 'all'.
C4_EveryAlphaIsConverted ==
    InUnitInterval(args.smoothquant) =>
        /\ pc # "AssertionError"
        /\ ~BeforeAssert => converter_calls = 1
        /\ AfterCalibrate => smooth_calls = <<args.smoothquant.val>>
        /\ \A i \in TaskIndices : starmap_args[i].int8_outputs = "all"

\* C5: with --calibrate-kv-cache and without --smoothquant the activation
\* ranges are captured once, smooth_baichuan_model is never called (weights
\* and captured ranges stay unsmoothed), there is no '.smoother' task and
\* every task carries int8_outputs = 'kv_cache_only'.
C5_KvCacheOnly ==
    (~BeforeAssert /\ args.calibrate_kv_cache /\ ~args.smoothquant.some) =>
        /\ smooth_calls = <<>>
        /\ smoothed_modules = {}
        /\ DOMAIN baichuan_smoother = {}
        /\ \A k \in DOMAIN act_range : act_range[k] = [x |-> "captured", w |-> FALSE]
        /\ capture_calls = (IF AfterCalibrate THEN 1 ELSE 0)
        /\ AfterCalibrate => DOMAIN act_range = LinearKeys(checkpoint_layers)
        /\ \A i \in TaskIndices :
              /\ ~Contains(starmap_args[i].name, <<"smoother">>)
              /\ starmap_args[i].vals.kind = "weight"
              /\ starmap_args[i].int8_outputs = "kv_cache_only"

C5_Witness ==
    /\ pc = "done"
    /\ args.calibrate_kv_cache
    /\ ~args.smoothquant.some
    /\ Len(starmap_args) > 0
    /\ capture_calls = 1

\* C9: on Windows a process count above 1 is reset to 1 before conversion,
\* so the pool is never created and every task runs in the sequential loop
\* of the main process; on every other platform the requested process count
\* is left unchanged.
C9_WindowsRunsSequentially ==
    /\ platform_system = "Windows" =>
          /\ ~pool_created
          /\ pc # "starmap"
          /\ pc \notin {"parse_args", "platform_check"} =>
                args.processes = (IF requested > 1 THEN 1 ELSE requested)
          /\ pc = "done" => seq_idx = Len(starmap_args) + 1
    /\ platform_system # "Windows" => args.processes = requested

C9_Witness ==
    /\ platform_system = "Windows"
    /\ requested > 1
    /\ pc = "done"
    /\ Len(starmap_args) > 0
    /\ \A i \in TaskIndices : calls[i] = 1

RunsOf(c) == { k \in 1..Len(runs) : runs[k].context = c }

\* C7: the sequence_length given to the engine is context_lengths at step 0
\* and context_lengths + 1 at step 1, the step-1 host_past_key_value_lengths
\* is seq_len + step - 1 = seq_len, the context run comes before the
\* generation run, and both use the same per-layer KV-cache buffers as past
\* and as present.
C7_TwoStepRun ==
    /\ Len(runs) <= 2
    /\ \A k \in 1..Len(runs) :
          /\ runs[k].context = (IF k = 1 THEN "ctx_context" ELSE "context_1")
          /\ runs[k].step = k - 1
          /\ runs[k].buffer.sequence_length =
                [b \in 1..batch_size |-> runs[k].buffer.context_lengths[b] + (k - 1)]
          /\ runs[k].buffer.context_lengths = [b \in 1..batch_size |-> seq_len]
          /\ runs[k].buffer.past_key_value = runs[k].buffer.present_key_value
          /\ runs[k].buffer.past_key_value = runs[1].buffer.past_key_value
          /\ Len(runs[k].buffer.past_key_value) = n_layer
          /\ \A i, j \in 1..n_layer :
                i # j => runs[k].buffer.past_key_value[i] # runs[k].buffer.past_key_value[j]
    /\ \A k \in RunsOf("context_1") :
          runs[k].buffer.host_past_key_value_lengths = [b \in 1..batch_size |-> seq_len]

C7_Witness ==
    /\ Len(runs) = 2
    /\ t_pc = "passed"
    /\ enable_remove_input_padding

Offset(t, idx) ==
    IF Len(idx) = 2 THEN idx[1] * t.stride[1] + idx[2] * t.stride[2] ELSE 0

TransposedNames ==
    { Dotted(<<"model", "layers", "0", "self_attn", "W_pack", "weight">>),
      Dotted(<<"model", "layers", "0", "self_attn", "W_pack", "bias">>),
      Dotted(<<"model", "layers", "0", "self_attn", "o_proj", "weight">>),
      Dotted(<<"model", "layers", "0", "mlp", "gate_proj", "weight">>),
      Dotted(<<"model", "layers", "0", "mlp", "down_proj", "weight">>),
      Dotted(<<"model", "layers", "0", "mlp", "up_proj", "weight">>),
      Dotted(<<"model", "layers", "0", "mlp">>) \o <<".", "gate_", "up_proj", ".", "weight">> }

\* C8: transpose_weights swaps the two axes of a parameter exactly when its
\* name contains one of W_pack, o_proj, gate_proj, down_proj, up_proj and the
\* parameter is 2-dimensional; every other parameter comes back unchanged,
\* and two applications give back the original layout.
C8_TransposeWeights ==
    /\ tr_count % 2 = 1 =>
          IF tr_name \in TransposedNames /\ Len(tr_orig.shape) = 2
          THEN /\ tr_param.shape = <<tr_orig.shape[2], tr_orig.shape[1]>>
               /\ \A i \in 0..(tr_param.shape[1] - 1), j \in 0..(tr_param.shape[2] - 1) :
                     Offset(tr_param, <<i, j>>) = Offset(tr_orig, <<j, i>>)
          ELSE tr_param = tr_orig
    /\ tr_count % 2 = 0 => tr_param = tr_orig

C8_Witness ==
    /\ tr_count = 2
    /\ tr_name \in TransposedNames
    /\ Len(tr_orig.shape) = 2
    /\ tr_orig.shape[1] # tr_orig.shape[2]

====
